---- MODULE Spec2Model ----
(***************************************************************************)
(* A model of netlify/functions/check-password.js: the serverless handler  *)
(* that scores a submitted password, looks it up in the HIBP range API by  *)
(* the 5-character prefix of its SHA-1 digest, and generates a suggested   *)
(* replacement in a bounded generate-and-verify loop.                      *)
(*                                                                         *)
(* Strings are TLA+ strings; JavaScript values that can be of several      *)
(* types (fields of the request body, suggested_password) are records      *)
(* [t |-> type, v |-> value].                                              *)
(***************************************************************************)
EXTENDS Integers, Sequences, FiniteSets, TLC

VARIABLES
  pc,             \* where the invocation is: idle, awaiting a fetch, done
  event,          \* the event the handler was invoked with
  password,       \* body.password once validated
  pwLength,       \* the length used for generation
  z,              \* zxcvbn(password)
  hibp,           \* checkHIBP(password)
  i,              \* the loop counter of the replacement loop
  suggested,      \* let suggested
  suggestedScore, \* let suggestedScore
  inflight,       \* the requests sent and not yet settled (positions in outbound)
  reply,          \* how the awaited fetch was settled, or NoReply
  response,       \* what the handler returned, or NoResponse
  outbound,       \* history: every request sent to the breach oracle
  answers,        \* history: what the oracle answered to each request
  generated,      \* history: every candidate generateStrongPassword returned
  zcalls,         \* history: every evaluation made by zxcvbn
  console,        \* history: what was written with console.error
  parked,         \* the invocation that is suspended while this one runs
  gen,            \* one call of generateStrongPassword, followed draw by draw
  scan            \* one search of a response body by checkHIBP

\* The variables of an invocation of the handler.
handlerVars ==
  <<pc, event, password, pwLength, z, hibp, i, suggested, suggestedScore,
    inflight, reply, response, outbound, answers, generated, zcalls, console>>

vars == <<handlerVars, parked, gen, scan>>

----------------------------------------------------------------------------
(* Bounds of the model. *)

\* The number of distinct outcomes of the random draws a call of
\* generateStrongPassword can see.
NumSeeds == 2

----------------------------------------------------------------------------
(* JavaScript values. *)

Undefined == [t |-> "undefined", v |-> "undefined"]
JSNull == [t |-> "null", v |-> "null"]
Str(s) == [t |-> "string", v |-> s]
Num(n) == [t |-> "number", v |-> n]
Obj(p, l) == [t |-> "object", v |-> "object", password |-> p, length |-> l]

\* !x
Falsy(x) ==
  \/ x.t \in {"undefined", "null"}
  \/ x.t = "string" /\ x.v = ""
  \/ x.t = "number" /\ x.v = 0

----------------------------------------------------------------------------
(* String helpers: what the JavaScript string methods the code calls do.   *)

RECURSIVE IndexOf(_, _, _)
\* The first position >= from of the character ch in s, 0 when there is none.
IndexOf(s, ch, from) ==
  IF from > Len(s) THEN 0
  ELSE IF SubSeq(s, from, from) = ch THEN from
  ELSE IndexOf(s, ch, from + 1)

RECURSIVE Contains(_, _, _)
\* needle occurs in hay at a position >= from
Contains(hay, needle, from) ==
  IF from + Len(needle) - 1 > Len(hay) THEN FALSE
  ELSE IF SubSeq(hay, from, from + Len(needle) - 1) = needle THEN TRUE
  ELSE Contains(hay, needle, from + 1)

RECURSIVE SplitFrom(_, _, _)
\* The pieces of s from position from on, cut at each separator.
SplitFrom(s, sep, from) ==
  LET p == IndexOf(s, sep, from)
  IN IF p = 0 THEN <<SubSeq(s, from, Len(s))>>
     ELSE <<SubSeq(s, from, p - 1)>> \o SplitFrom(s, sep, p + 1)

\* s.split(sep) for a one-character separator
split(s, sep) == SplitFrom(s, sep, 1)

LowerLetters == "abcdefghijklmnopqrstuvwxyz"
UpperLetters == "ABCDEFGHIJKLMNOPQRSTUVWXYZ"
LowerLetterSet == {SubSeq(LowerLetters, n, n) : n \in 1 .. Len(LowerLetters)}
UpperLetterSet == {SubSeq(UpperLetters, n, n) : n \in 1 .. Len(UpperLetters)}

\* The upper case and the lower case of one character.
UpperChar(c) ==
  IF c \in LowerLetterSet
  THEN LET p == IndexOf(LowerLetters, c, 1) IN SubSeq(UpperLetters, p, p)
  ELSE c

LowerChar(c) ==
  IF c \in UpperLetterSet
  THEN LET p == IndexOf(UpperLetters, c, 1) IN SubSeq(LowerLetters, p, p)
  ELSE c

RECURSIVE Concat(_)
\* The concatenation of a sequence of strings.
Concat(parts) == IF parts = <<>> THEN "" ELSE Head(parts) \o Concat(Tail(parts))

\* s.toUpperCase() and s.toLowerCase(): character by character
toUpperCase(s) == Concat([n \in 1 .. Len(s) |-> UpperChar(SubSeq(s, n, n))])

toLowerCase(s) == Concat([n \in 1 .. Len(s) |-> LowerChar(SubSeq(s, n, n))])

DecimalDigits == "0123456789"
WhiteSpace == {" ", "\t", "\r", "\n"}

RECURSIVE DigitsValue(_, _, _)
\* The value of the longest run of decimal digits of s from position p on,
\* acc the value read so far; [seen |-> a digit was read, n |-> the value].
DigitsValue(s, p, acc) ==
  LET d == IF p > Len(s) THEN 0 ELSE IndexOf(DecimalDigits, SubSeq(s, p, p), 1)
  IN IF d = 0 THEN acc
     ELSE DigitsValue(s, p + 1, [seen |-> TRUE, n |-> acc.n * 10 + (d - 1)])

RECURSIVE SkipWhiteSpace(_, _)
SkipWhiteSpace(s, p) ==
  IF p <= Len(s) /\ SubSeq(s, p, p) \in WhiteSpace THEN SkipWhiteSpace(s, p + 1) ELSE p

\* parseInt(x, 10): [nan |-> TRUE] for NaN, else [nan |-> FALSE, n |-> value].
\* x is a JavaScript value; undefined is converted to the string "undefined".
parseInt(x) ==
  LET s == x.v
      p == SkipWhiteSpace(s, 1)
      sign == IF p <= Len(s) /\ SubSeq(s, p, p) = "-" THEN -1 ELSE 1
      q == IF p <= Len(s) /\ SubSeq(s, p, p) \in {"-", "+"} THEN p + 1 ELSE p
      r == DigitsValue(s, q, [seen |-> FALSE, n |-> 0])
  IN IF r.seen THEN [nan |-> FALSE, n |-> sign * r.n] ELSE [nan |-> TRUE, n |-> 0]

----------------------------------------------------------------------------
(* generateStrongPassword.  Math.random() is the process-wide random       *)
(* source: the k-th draw of a call is a number num / RandomUnit of [0, 1), *)
(* taken from one of the streams 1 .. NumSeeds the call may see.           *)

RandomUnit == 1000

\* The numerator of the k-th Math.random() of stream seed.
MathRandom(seed, k) == (seed * 131 + k * 377 + seed * k * 59) % RandomUnit

\* Math.floor(Math.random() * n) when Math.random() is num / RandomUnit
Floor(num, n) == (num * n) \div RandomUnit

\* Math.floor(Math.random() * n) at the k-th draw
RandomIndex(seed, k, n) == Floor(MathRandom(seed, k), n)

\* s[idx], idx counted from 0
CharAt(s, idx) == SubSeq(s, idx + 1, idx + 1)

upper == "ABCDEFGHIJKLMNOPQRSTUVWXYZ"
lower == "abcdefghijklmnopqrstuvwxyz"
digits == "0123456789"
symbols == "!@#$%^&*()-_=+[]{}<>?"
all == upper \o lower \o digits \o symbols

\* The four seeded characters: draws 1 to 4.
SeedClasses(seed) ==
  CharAt(upper, RandomIndex(seed, 1, Len(upper)))
    \o CharAt(lower, RandomIndex(seed, 2, Len(lower)))
    \o CharAt(digits, RandomIndex(seed, 3, Len(digits)))
    \o CharAt(symbols, RandomIndex(seed, 4, Len(symbols)))

RECURSIVE FillRest(_, _, _)
\* for (let i = pw.length; i < length; i++) pw += all[...]: one draw for each
\* character added, so Len(pw) draws were made when pw is reached.
FillRest(pw, length, seed) ==
  CHOOSE r \in
    {IF Len(p) >= length THEN p
     ELSE FillRest(p \o CharAt(all, RandomIndex(seed, Len(p) + 1, Len(all))), length, seed) :
       p \in {pw}} : TRUE

\* pw.split('') and arr.join('')
SplitChars(s) == [n \in 1 .. Len(s) |-> SubSeq(s, n, n)]

JoinChars(arr) == Concat(arr)

\* A variant of Swap that writes arr[j] to arr[idx] and leaves arr[j].
SwapOverwrite(a, idx, j) == [a EXCEPT ![idx + 1] = a[j + 1]]

\* [arr[i], arr[j]] = [arr[j], arr[i]], with idx and j counted from 0
Swap(a, idx, j) == [a EXCEPT ![idx + 1] = a[j + 1], ![j + 1] = a[idx + 1]]

RECURSIVE Shuffle(_, _, _, _)
\* for (let i = arr.length - 1; i > 0; i--) { j = floor(random * (i + 1)); swap }
\* with i counted from 0 as in the code, and k draws made before this step.
Shuffle(arr, idx, seed, k) ==
  CHOOSE r \in
    {IF idx <= 0 THEN a
     ELSE LET j == RandomIndex(seed, k + 1, idx + 1)
          IN Shuffle(Swap(a, idx, j), idx - 1, seed, k + 1) :
       a \in {arr}} : TRUE

generateStrongPassword(length, seed) ==
  LET pw == FillRest(SeedClasses(seed), length, seed)
      arr == SplitChars(pw)
  IN JoinChars(Shuffle(arr, Len(arr) - 1, seed, Len(pw)))

Seeds == 1 .. NumSeeds

----------------------------------------------------------------------------
(* sha1Hex: the SHA-1 digests, in uppercase hexadecimal, of the strings    *)
(* the model hashes (the submitted passwords and the candidates the random *)
(* streams generate).                                                      *)

sha1Hex(input) ==
  CASE input = "" -> "DA39A3EE5E6B4B0D3255BFEF95601890AFD80709"
    [] input = "password" -> "5BAA61E4C9B93F3F0682250B6CF8331B7EE68FD8"
    [] input = "password123" -> "CBFDAC6008F9CAB4083784CBD1874F76618D2A97"
    [] input = "Tr0ub4dor&3-cOrrect" -> "17005CF5EDF335E55468761432978BBCDCE838AD"
    [] input = "<E!az[eZOP4o" -> "99CF1287B37A0E7D4579AFC56DB72C5FFE28626A"
    [] input = "4Z[PoI%OTaz<e!3E" -> "2178A70D991BDF3488D5ACF3F73C6FE8306A0B93"
    [] input = "<E(a3teiIP>oZ%zO[4T!" -> "D64CC80C7ADE25C8D25DFA238F976B2DADDEAC32"
    [] input = "^RS6T9QTg877" -> "8E7176F55284FA49F748F86D83BB32060783C601"
    [] input = "Q795P^TTP8gS5R76" -> "37774B2054FBA41E41EC0BBC5075EADA06D24395"
    [] input = "TPO4R^N9T85S57g63Q7P" -> "D537853152E7D1CE68217D988A313F4C4844A424"
    [] input = "N=oY]7fW0Dn&" -> "477975021FBBCA058720FFC9303D6F8CBF9E8EED"
    [] input = "f=D&N06]onMYWV7x" -> "B52F1BADFDE9DE98FDCC489BB746E983F0E0ACF6"
    [] input = "oe&VWMf]nxn76N^=[0DY" -> "6546B1F5D179C581A7A76C3882CA4B04C2CC0FC2"
    [] input = "DwD_^W?23jtQ" -> "9DF9CE5573D5AC96E0DC2B2A6580C24573584744"
    [] input = "Q_7tjo?2I^DwW3Db" -> "FD86E64F8100FD96FA9B84FAE877F1558B999B0F"
    [] input = "ou{O$237bQW?Dt^Iw_Dj" -> "2D8D7EB9EB60E24C3331CF613DDCEC672EEC7B0B"

----------------------------------------------------------------------------
(* checkHIBP: the request it sends, and what it makes of the answer.       *)

HIBPRangeUrl == "https://api.pwnedpasswords.com/range/"
UserAgent == "Graduation-Project-Password-Checker"

\* sha1.slice(0, 5) and sha1.slice(5)
HashPrefix(sha1) == SubSeq(sha1, 1, 5)
HashSuffix(sha1) == SubSeq(sha1, 6, Len(sha1))

\* What the URL of the request carries after the address of the range API.
RangeQuery(pw) == HashPrefix(sha1Hex(pw))

\* A variant of FetchRequest that puts the whole digest in the URL.
FetchRequestWholeDigest(pw) ==
  [url |-> HIBPRangeUrl \o sha1Hex(pw), headers |-> [UserAgent |-> UserAgent]]

\* The request fetch is called with.
FetchRequest(pw) ==
  [url |-> HIBPRangeUrl \o RangeQuery(pw), headers |-> [UserAgent |-> UserAgent]]

\* A variant of LineMatches that compares without toUpperCase().
LineMatchesCaseSensitive(line, suffix) == split(line, ":")[1] = suffix

\* line.split(':')[0].toUpperCase() === suffix
LineMatches(line, suffix) == toUpperCase(split(line, ":")[1]) = suffix

RECURSIVE find(_, _)
\* text.split('\n').find(...): the first matching line, or undefined
find(lines, suffix) ==
  IF lines = <<>> THEN Undefined
  ELSE IF LineMatches(Head(lines), suffix) THEN Str(Head(lines))
  ELSE find(Tail(lines), suffix)

\* parseInt(hit.split(':')[1], 10) || 0
HitCount(hit) ==
  LET parts == split(hit, ":")
      n == parseInt(IF Len(parts) >= 2 THEN Str(parts[2]) ELSE Undefined)
  IN IF n.nan \/ n.n = 0 THEN 0 ELSE n.n

\* Steps 4 and 5 of checkHIBP, on the text of a successful response.
SearchRange(text, suffix) ==
  LET hit == find(split(text, "\n"), suffix)
  IN IF Falsy(hit) THEN [pwned |-> FALSE, count |-> 0]
     ELSE [pwned |-> TRUE, count |-> HitCount(hit.v)]

\* if (!resp || !resp.ok)
NotOk(rp) == ~rp.ok

\* A variant of FailSafe that reports the string as exposed.
FailClosed == [pwned |-> TRUE, count |-> 0]

\* What checkHIBP returns when the response is not a success.
FailSafe == [pwned |-> FALSE, count |-> 0]

\* What `await checkHIBP(pw)` comes to once the fetch is settled with rp:
\* a returned value, or a rejection (threw) with the error's message.
checkHIBP(pw, rp) ==
  IF rp.kind = "reject"
  THEN [threw |-> TRUE, message |-> "fetch failed", value |-> Undefined, log |-> <<>>]
  ELSE IF NotOk(rp)
  THEN [threw |-> FALSE, message |-> "", value |-> FailSafe,
        log |-> <<"HIBP API error">>]
  ELSE IF rp.kind = "bodyfail"
  THEN [threw |-> TRUE, message |-> "terminated", value |-> Undefined, log |-> <<>>]
  ELSE [threw |-> FALSE, message |-> "",
        value |-> SearchRange(rp.text, HashSuffix(sha1Hex(pw))), log |-> <<>>]

----------------------------------------------------------------------------
(* The breach oracle (api.pwnedpasswords.com): the environment.  It sees   *)
(* the request alone and answers with a range of SUFFIX:COUNT lines, with  *)
(* a non-success status, or not at all (the fetch is rejected, or the body *)
(* cannot be read).                                                        *)

SubmittedPasswords == {"password", "Tr0ub4dor&3-cOrrect"}
AllowedLengths == {12, 16, 20}

\* The strings whose digests the oracle's corpus may hold.
KnownStrings ==
  SubmittedPasswords \cup {generateStrongPassword(L, s) : L \in AllowedLengths, s \in Seeds}

Decoy1 == "0018A45C4D1DEF81644B54AB7F969B88D65"
Decoy2 == "00D4F6E8FA6EECAD2A3AA415EEC418D38EC"

\* What a request's URL carries after the address of the range API.
RangeOf(req) == SubSeq(req.url, Len(HIBPRangeUrl) + 1, Len(req.url))

\* The digest suffixes of the known strings in the range asked for.
CorpusSuffixes(range) ==
  {HashSuffix(sha1Hex(s)) :
     s \in {k \in KnownStrings : HashPrefix(sha1Hex(k)) = SubSeq(range, 1, 5)}}

\* The bodies the oracle may send for a range: text is the body, listed the
\* suffixes the oracle has a record of in it.
RangeTexts(range) ==
  {[text |-> "", listed |-> {}],
   [text |-> Decoy1 \o ":1\r\n" \o Decoy2 \o ":2", listed |-> {Decoy1, Decoy2}]}
  \cup UNION {
   {[text |-> Decoy1 \o ":1\r\n" \o x \o ":37\r\n" \o Decoy2 \o ":2",
     listed |-> {Decoy1, x, Decoy2}],
    [text |-> toLowerCase(x) \o ":4", listed |-> {x}],
    [text |-> x, listed |-> {x}],
    [text |-> SubSeq(x, 1, Len(x) - 1) \o ":9\n" \o x \o "0:9",
     listed |-> {SubSeq(x, 1, Len(x) - 1), x \o "0"}]} : x \in CorpusSuffixes(range)}

NoReply == [kind |-> "none", ok |-> FALSE, text |-> "", listed |-> {}]

\* How a fetch may be settled: rejected (the oracle cannot be reached),
\* resolved with a non-success status, resolved with a success status and a
\* body that cannot be read, resolved with a success status and a body.
Replies(req) ==
  {[kind |-> "reject", ok |-> FALSE, text |-> "", listed |-> {}],
   [kind |-> "response", ok |-> FALSE, text |-> "", listed |-> {}],
   [kind |-> "bodyfail", ok |-> TRUE, text |-> "", listed |-> {}]}
  \cup {[kind |-> "response", ok |-> TRUE, text |-> t.text, listed |-> t.listed] :
          t \in RangeTexts(RangeOf(req))}

\* What the oracle answered about the string checked.
AnswerOf(checked, rp) ==
  CASE rp.kind \in {"reject", "bodyfail"} -> "failed"
    [] rp.kind = "response" /\ ~rp.ok -> "non_success"
    [] rp.kind = "response" /\ rp.ok /\ HashSuffix(sha1Hex(checked)) \in rp.listed -> "exposed"
    [] OTHER -> "not_exposed"

----------------------------------------------------------------------------
(* zxcvbn: the strength estimator, an external library.  A deterministic   *)
(* function of its input whose values the model leaves open.               *)

ZxcvbnResults == [score : 0 .. 4, feedback : {"feedback"}]

\* The results zxcvbn(input) may have, given the evaluations made so far.
zxcvbn(input, calls) ==
  IF \E n \in 1 .. Len(calls) : calls[n].input = input
  THEN {calls[n].result : n \in {m \in 1 .. Len(calls) : calls[m].input = input}}
  ELSE ZxcvbnResults

----------------------------------------------------------------------------
(* The events the handler is invoked with.                                 *)

EventBodies ==
  {Undefined,
   Str(""),
   Str("{}"),
   Str("{\"password\":\"password\"}"),
   Str("{\"password\":\"password\",\"length\":12}"),
   Str("{\"password\":\"password\",\"length\":20}"),
   Str("{\"password\":\"password\",\"length\":13}"),
   Str("{\"password\":\"password\",\"length\":\"12\"}"),
   Str("{\"password\":\"Tr0ub4dor&3-cOrrect\",\"length\":16}"),
   Str("{\"password\":\"\"}"),
   Str("{\"password\":12345}"),
   Str("{\"length\":12}"),
   Str("42"),
   Str("null"),
   Str("{password"),
   Str("password"),
   Str("Tr0ub4dor&3-cOrrect")}

Events == [httpMethod : {"POST", "GET"}, body : EventBodies]

\* JSON.parse on the texts above: the value, or the SyntaxError thrown, with
\* the message V8 gives it since Node.js 20 (a text shorter than 21 characters
\* that starts with an unexpected token is quoted whole; before Node.js 20
\* the message was "Unexpected token p in JSON at position 0").
JSONparse(text) ==
  LET value(x) == [ok |-> TRUE, value |-> x, message |-> ""]
  IN CASE text = "{}" -> value(Obj(Undefined, Undefined))
       [] text = "{\"password\":\"password\"}" -> value(Obj(Str("password"), Undefined))
       [] text = "{\"password\":\"password\",\"length\":12}" ->
            value(Obj(Str("password"), Num(12)))
       [] text = "{\"password\":\"password\",\"length\":20}" ->
            value(Obj(Str("password"), Num(20)))
       [] text = "{\"password\":\"password\",\"length\":13}" ->
            value(Obj(Str("password"), Num(13)))
       [] text = "{\"password\":\"password\",\"length\":\"12\"}" ->
            value(Obj(Str("password"), Str("12")))
       [] text = "{\"password\":\"Tr0ub4dor&3-cOrrect\",\"length\":16}" ->
            value(Obj(Str("Tr0ub4dor&3-cOrrect"), Num(16)))
       [] text = "{\"password\":\"\"}" -> value(Obj(Str(""), Undefined))
       [] text = "{\"password\":12345}" -> value(Obj(Num(12345), Undefined))
       [] text = "{\"length\":12}" -> value(Obj(Undefined, Num(12)))
       [] text = "42" -> value(Num(42))
       [] text = "null" -> value(JSNull)
       [] text = "{password" ->
            [ok |-> FALSE, value |-> Undefined,
             message |-> "Expected property name or '}' in JSON at position 1"]
       [] text \in {"password", "Tr0ub4dor&3-cOrrect"} ->
            [ok |-> FALSE, value |-> Undefined,
             message |-> "Unexpected token '" \o SubSeq(text, 1, 1) \o "', \""
                           \o text \o "\" is not valid JSON"]

----------------------------------------------------------------------------
(* exports.handler: the responses it returns.                              *)

maxAttempts == 5
DefaultLength == 16

NoResponse == [statusCode |-> 0, headers |-> {}, body |-> [error |-> "none"]]

MethodNotAllowed ==
  [statusCode |-> 405, headers |-> {}, body |-> [error |-> "method_not_allowed"]]

PasswordRequired ==
  [statusCode |-> 400, headers |-> {}, body |-> [error |-> "password_required"]]

\* The catch block's response: details is e.message.
InternalError(message) ==
  [statusCode |-> 500, headers |-> {},
   body |-> [error |-> "internal_error", details |-> message]]

\* A variant of ResponseBody that suggests only a password that was scored.
ResponseBodyScoredOnly(hibpV, zV, sug, sugScore) ==
  [pwned |-> hibpV.pwned,
   pwned_count |-> hibpV.count,
   strength_score |-> zV.score,
   strength_feedback |-> zV.feedback,
   suggested_password |-> IF sugScore = 0 THEN JSNull ELSE sug,
   suggested_password_score |-> sugScore]

\* The fields JSON.stringify writes into the body of the final response.
ResponseBody(hibpV, zV, sug, sugScore) ==
  [pwned |-> hibpV.pwned,
   pwned_count |-> hibpV.count,
   strength_score |-> zV.score,
   strength_feedback |-> zV.feedback,
   suggested_password |-> sug,
   suggested_password_score |-> sugScore]

\* A variant of Response200 without the Cache-Control header.
Response200Cacheable(hibpV, zV, sug, sugScore) ==
  [statusCode |-> 200,
   headers |-> {<<"Content-Type", "application/json">>},
   body |-> ResponseBody(hibpV, zV, sug, sugScore)]

Response200(hibpV, zV, sug, sugScore) ==
  [statusCode |-> 200,
   headers |-> {<<"Content-Type", "application/json">>, <<"Cache-Control", "no-store">>},
   body |-> ResponseBody(hibpV, zV, sug, sugScore)]

----------------------------------------------------------------------------
(* exports.handler: from the invocation to the first await.                *)

\* const { password, length } = body
Destructure(body) ==
  IF body.t \in {"null", "undefined"}
  THEN [threw |-> TRUE, password |-> Undefined, length |-> Undefined,
        message |-> "Cannot destructure property 'password' of 'body' as it is null."]
  ELSE IF body.t = "object"
  THEN [threw |-> FALSE, password |-> body.password, length |-> body.length, message |-> ""]
  ELSE [threw |-> FALSE, password |-> Undefined, length |-> Undefined, message |-> ""]

\* A variant of PasswordInvalid without the test for an empty password.
PasswordInvalidTypeOnly(pw) == pw.t # "string"

\* !password || typeof password !== 'string'
PasswordInvalid(pw) == Falsy(pw) \/ pw.t # "string"

\* A variant of PwLength that ignores the request's length.
PwLengthDefaultOnly(length) == DefaultLength

\* [12, 16, 20].includes(length) ? length : 16
PwLength(length) ==
  IF length.t = "number" /\ length.v \in AllowedLengths THEN length.v ELSE DefaultLength

\* What the catch block does with an error: it logs it and returns a 500.
Caught(message) ==
  [kind |-> "return", response |-> InternalError(message),
   log |-> <<"Internal function error: " \o message>>, password |-> "", pwLength |-> 0]

\* The handler up to the validation of the request: either it returns a
\* response, or it goes on to the checks with a password and a length.
Entry(ev) ==
  IF ev.httpMethod # "POST"
  THEN [kind |-> "return", response |-> MethodNotAllowed, log |-> <<>>,
        password |-> "", pwLength |-> 0]
  ELSE LET parsed == JSONparse(IF Falsy(ev.body) THEN "{}" ELSE ev.body.v)
           d == Destructure(parsed.value)
       IN IF ~parsed.ok THEN Caught(parsed.message)
          ELSE IF d.threw THEN Caught(d.message)
          ELSE IF PasswordInvalid(d.password)
          THEN [kind |-> "return", response |-> PasswordRequired, log |-> <<>>,
                password |-> "", pwLength |-> 0]
          ELSE [kind |-> "checks", response |-> NoResponse, log |-> <<>>,
                password |-> d.password.v, pwLength |-> PwLength(d.length)]

\* A variant of NeedsSuggestion that asks for both conditions.
NeedsSuggestionBoth(strength_score, pwned) == strength_score < 4 /\ pwned

\* if (strength_score < 4 || hibp.pwned)
NeedsSuggestion(strength_score, pwned) == strength_score < 4 \/ pwned

\* A variant of LoopContinues that runs one iteration more.
LoopContinuesOneMore(n) == n <= maxAttempts

\* for (let i = 0; i < 5; i++): the loop goes on to iteration n
LoopContinues(n) == n < maxAttempts

\* A variant of CatchLookup that takes a failed lookup as exposed.
CatchLookupExposed(r) == IF r.threw THEN [pwned |-> TRUE] ELSE r.value

\* await checkHIBP(suggested).catch(() => ({ pwned: false }))
CatchLookup(r) == IF r.threw THEN [pwned |-> FALSE] ELSE r.value

\* A variant of Accepts with the test inverted.
AcceptsExposed(chk) == chk.pwned

\* if (!chk.pwned)
Accepts(chk) == ~chk.pwned

----------------------------------------------------------------------------
(* The state machine.                                                      *)

\* A variant of Settled that does not wait.
SettledAlways(rp) == TRUE

\* await: the handler goes on once the fetch it awaits is settled with rp.
Settled(rp) == rp.kind # "none"

NoZ == [score |-> -1, feedback |-> "none"]
NoHibp == [pwned |-> FALSE, count |-> -1]

\* No call of generateStrongPassword is followed.
NoCall == [pc |-> "none", length |-> 0, pw |-> "", arr |-> <<>>, i |-> 0]

\* The handler before it is invoked.
Idle ==
  /\ pc = "idle"
  /\ event = [httpMethod |-> "none", body |-> Undefined]
  /\ password = ""
  /\ pwLength = 0
  /\ z = NoZ
  /\ hibp = NoHibp
  /\ i = 0
  /\ suggested = JSNull
  /\ suggestedScore = 0
  /\ inflight = {}
  /\ reply = NoReply
  /\ response = NoResponse
  /\ outbound = <<>>
  /\ answers = <<>>
  /\ generated = <<>>
  /\ zcalls = <<>>
  /\ console = <<>>

\* No search of a response body is followed.
NoScan == [pc |-> "none", pw |-> "", records |-> <<>>, result |-> NoHibp]

\* What an invocation holds while it is suspended: the parameter and the
\* local variables of the handler and of the checkHIBP call it awaits,
\* where it is to resume, and the history of its own requests.
IdleContext ==
  [pc |-> "idle", event |-> [httpMethod |-> "none", body |-> Undefined],
   password |-> "", pwLength |-> 0, z |-> NoZ, hibp |-> NoHibp, i |-> 0,
   suggested |-> JSNull, suggestedScore |-> 0, inflight |-> {}, reply |-> NoReply,
   response |-> NoResponse, outbound |-> <<>>, answers |-> <<>>, generated |-> <<>>]

Init == Idle /\ parked = IdleContext /\ gen = NoCall /\ scan = NoScan

\* checkHIBP(pw) up to its await: the request is sent.
SendLookup(pw) ==
  /\ outbound' = Append(outbound, [request |-> FetchRequest(pw), checked |-> pw])
  /\ inflight' = inflight \cup {Len(outbound) + 1}
  /\ reply' = NoReply

\* The handler returns resp.
Return(resp) ==
  /\ response' = resp
  /\ pc' = "done"

\* One iteration of the replacement loop, up to its await: a candidate is
\* generated and its lookup is sent.
StartAttempt(n) ==
  \E seed \in Seeds :
    \E c \in {generateStrongPassword(pwLength, seed)} :
       /\ i' = n
       /\ suggested' = Str(c)
       /\ generated' = Append(generated, c)
       /\ SendLookup(c)
       /\ pc' = "await_candidate"

\* The handler is invoked with ev and runs to its first await, or returns.
Invoke(ev) ==
  /\ pc = "idle"
  /\ event' = ev
  /\ \E e \in {Entry(ev)} :
        IF e.kind = "return"
        THEN /\ Return(e.response)
             /\ console' = console \o e.log
             /\ UNCHANGED <<password, pwLength, z, zcalls, outbound, inflight, reply>>
        ELSE /\ password' = e.password
             /\ pwLength' = e.pwLength
             /\ \E zr \in zxcvbn(e.password, zcalls) :
                  /\ z' = zr
                  /\ zcalls' = Append(zcalls, [input |-> e.password, result |-> zr])
             /\ SendLookup(e.password)
             /\ pc' = "await_password"
             /\ UNCHANGED <<response, console>>
  /\ UNCHANGED <<hibp, i, suggested, suggestedScore, answers, generated, parked, gen, scan>>

\* The oracle settles a fetch in flight.
OracleReply ==
  /\ reply.kind = "none"
  /\ \E n \in inflight :
       \E rp \in Replies(outbound[n].request) :
         /\ reply' = rp
         /\ inflight' = inflight \ {n}
         /\ answers' = Append(answers, [checked |-> outbound[n].checked,
                                        answer |-> AnswerOf(outbound[n].checked, rp)])
  /\ UNCHANGED <<pc, event, password, pwLength, z, hibp, i, suggested, suggestedScore,
                 response, outbound, generated, zcalls, console, parked, gen, scan>>

\* The lookup of the submitted password is settled: Promise.all is settled,
\* and the handler runs to the await of the first candidate's lookup, or
\* returns.
ResumePassword ==
  /\ pc = "await_password"
  /\ Settled(reply)
  /\ \E r \in {checkHIBP(password, reply)} :
        IF r.threw
        THEN /\ Return(Caught(r.message).response)
             /\ console' = console \o r.log \o Caught(r.message).log
             /\ reply' = NoReply
             /\ UNCHANGED <<hibp, i, suggested, suggestedScore, outbound, inflight, generated>>
        ELSE /\ hibp' = r.value
             /\ console' = console \o r.log
             /\ IF NeedsSuggestion(z.score, r.value.pwned)
                THEN /\ StartAttempt(0)
                     /\ suggestedScore' = 0
                     /\ UNCHANGED response
                ELSE /\ Return(Response200(r.value, z, JSNull, 0))
                     /\ suggested' = JSNull
                     /\ suggestedScore' = 0
                     /\ reply' = NoReply
                     /\ UNCHANGED <<i, outbound, inflight, generated>>
  /\ UNCHANGED <<event, password, pwLength, z, answers, zcalls, parked, gen, scan>>

\* The lookup of a candidate is settled: the candidate is accepted and the
\* handler returns, or the loop goes on with the next candidate, or the loop
\* ends and the handler returns.
ResumeCandidate ==
  /\ pc = "await_candidate"
  /\ Settled(reply)
  /\ \E r \in {checkHIBP(suggested.v, reply)} :
      \E chk \in {CatchLookup(r)} :
        /\ console' = console \o r.log
        /\ IF Accepts(chk)
           THEN \E zr \in zxcvbn(suggested.v, zcalls) :
                  /\ suggestedScore' = zr.score
                  /\ zcalls' = Append(zcalls, [input |-> suggested.v, result |-> zr])
                  /\ Return(Response200(hibp, z, suggested, zr.score))
                  /\ reply' = NoReply
                  /\ UNCHANGED <<i, suggested, outbound, inflight, generated>>
           ELSE IF LoopContinues(i + 1)
           THEN /\ StartAttempt(i + 1)
                /\ UNCHANGED <<suggestedScore, zcalls, response>>
           ELSE /\ Return(Response200(hibp, z, suggested, suggestedScore))
                /\ i' = i + 1
                /\ reply' = NoReply
                /\ UNCHANGED <<suggested, suggestedScore, zcalls, outbound, inflight,
                               generated>>
  /\ UNCHANGED <<event, password, pwLength, z, hibp, answers, parked, gen, scan>>

Next ==
  \/ \E ev \in Events : Invoke(ev)
  \/ OracleReply
  \/ ResumePassword
  \/ ResumeCandidate

Spec == Init /\ [][Next]_vars

----------------------------------------------------------------------------
(* generateStrongPassword followed draw by draw: each Math.random() is any *)
(* of the numbers Draws / RandomUnit, whatever the draws before it.        *)

\* The largest length the function is called with here.
MaxGenLength == 5

GenLengths == 0 .. MaxGenLength

\* The numerators of the values Math.random() may return: the smallest, one
\* in the middle and the largest.
Draws == {0, 500, 999}

\* The classes the first four characters are drawn from, in the order of
\* lines 29 to 32.
Classes == <<upper, lower, digits, symbols>>

\* const arr = pw.split('') and the loop of lines 43 to 46 up to its first
\* draw: the loop starts at arr.length - 1 and is over when i > 0 fails.
StartShuffle(g) ==
  LET arr == SplitChars(g.pw)
  IN [g EXCEPT !.arr = arr, !.i = Len(arr) - 1,
               !.pc = IF Len(arr) - 1 > 0 THEN "shuffle" ELSE "returned"]

\* The loop of lines 36 to 38 up to its next draw: it goes on while
\* i < length, and the shuffle follows it.
StartFill(g) == IF g.i < g.length THEN [g EXCEPT !.pc = "fill"] ELSE StartShuffle(g)

\* generateStrongPassword(length) is called: it is at its first draw.
GenInit ==
  /\ Idle
  /\ parked = IdleContext
  /\ scan = NoScan
  /\ gen \in {[pc |-> "seed", length |-> L, pw |-> "", arr |-> <<>>, i |-> 0] :
               L \in GenLengths}

\* Lines 29 to 32: one character of the next class is drawn and added;
\* after the fourth, let i = pw.length.
DrawClass(num) ==
  /\ gen.pc = "seed"
  /\ LET class == Classes[Len(gen.pw) + 1]
         pw == gen.pw \o CharAt(class, Floor(num, Len(class)))
     IN gen' = IF Len(pw) < Len(Classes) THEN [gen EXCEPT !.pw = pw]
               ELSE StartFill([gen EXCEPT !.pw = pw, !.i = Len(pw)])
  /\ UNCHANGED <<handlerVars, parked, scan>>

\* Line 37 and i++: one character of all is drawn and added.
DrawFill(num) ==
  /\ gen.pc = "fill"
  /\ gen' = StartFill([gen EXCEPT !.pw = gen.pw \o CharAt(all, Floor(num, Len(all))),
                                  !.i = gen.i + 1])
  /\ UNCHANGED <<handlerVars, parked, scan>>

\* Lines 44 and 45 and i--: j is drawn and arr[i], arr[j] are swapped; the
\* function returns arr.join('') when the loop is over.
DrawSwap(num) ==
  /\ gen.pc = "shuffle"
  /\ LET j == Floor(num, gen.i + 1)
     IN gen' = [gen EXCEPT !.arr = Swap(gen.arr, gen.i, j),
                           !.i = gen.i - 1,
                           !.pc = IF gen.i - 1 > 0 THEN "shuffle" ELSE "returned"]
  /\ UNCHANGED <<handlerVars, parked, scan>>

GenNext ==
  \/ \E num \in Draws : DrawClass(num)
  \/ \E num \in Draws : DrawFill(num)
  \/ \E num \in Draws : DrawSwap(num)

GenSpec == GenInit /\ [][GenNext]_vars

\* What the call followed returned: arr.join('').
GenResult == JoinChars(gen.arr)

----------------------------------------------------------------------------
(* checkHIBP on a successful response whose body is put together record by *)
(* record, for the digest suffix of a submitted password.                  *)

\* The largest number of records of a body.
MaxRecords == 3

\* The records a body may hold when the suffix sought is x.  line is the
\* text of the record; same tells whether its suffix field, the text before
\* its first ':', is x up to the case of the letters; count is the count
\* the record states, 0 when it states none that can be read.
ScanRecords(x) ==
  {[line |-> x \o ":37", same |-> TRUE, count |-> 37],
   [line |-> x \o ":37\r", same |-> TRUE, count |-> 37],
   [line |-> toLowerCase(x) \o ":4", same |-> TRUE, count |-> 4],
   [line |-> toLowerCase(SubSeq(x, 1, 10)) \o SubSeq(x, 11, Len(x)) \o ":8",
    same |-> TRUE, count |-> 8],
   [line |-> x \o ":0", same |-> TRUE, count |-> 0],
   [line |-> x \o ":abc", same |-> TRUE, count |-> 0],
   [line |-> x \o ":", same |-> TRUE, count |-> 0],
   [line |-> x, same |-> TRUE, count |-> 0],
   [line |-> SubSeq(x, 1, Len(x) - 1) \o ":9", same |-> FALSE, count |-> 9],
   [line |-> x \o "0:9", same |-> FALSE, count |-> 9],
   [line |-> SubSeq(x, 2, Len(x)) \o ":9", same |-> FALSE, count |-> 9],
   [line |-> Decoy1 \o ":1\r", same |-> FALSE, count |-> 1],
   [line |-> "", same |-> FALSE, count |-> 0]}

RECURSIVE BodyText(_)
\* The body with the records given: their lines, with a newline between
\* two of them.
BodyText(records) ==
  IF records = <<>> THEN ""
  ELSE IF Len(records) = 1 THEN records[1].line
  ELSE records[1].line \o "\n" \o BodyText(Tail(records))

\* A body is to be put together for the suffix of a submitted password.
ScanInit ==
  /\ Idle
  /\ parked = IdleContext
  /\ gen = NoCall
  /\ scan \in {[pc |-> "body", pw |-> p, records |-> <<>>, result |-> NoHibp] :
                p \in SubmittedPasswords}

\* The oracle adds a record to the body.
AddRecord(r) ==
  /\ scan.pc = "body"
  /\ Len(scan.records) < MaxRecords
  /\ scan' = [scan EXCEPT !.records = Append(@, r)]
  /\ UNCHANGED <<handlerVars, parked, gen>>

\* checkHIBP(pw) gets the body in a successful response and returns.
Search ==
  /\ scan.pc = "body"
  /\ \E r \in {checkHIBP(scan.pw, [kind |-> "response", ok |-> TRUE,
                                    text |-> BodyText(scan.records),
                                    listed |-> {}])} :
       scan' = [scan EXCEPT !.pc = "searched", !.result = r.value]
  /\ UNCHANGED <<handlerVars, parked, gen>>

ScanNext ==
  \/ \E r \in ScanRecords(HashSuffix(sha1Hex(scan.pw))) : AddRecord(r)
  \/ Search

ScanSpec == ScanInit /\ [][ScanNext]_vars

----------------------------------------------------------------------------
(* Two invocations in one process.  The event loop runs one invocation at  *)
(* a time, up to its next await; there it may go on with the other one.    *)
(* The parameter and the local variables of the handler belong to the      *)
(* invocation; the process has one console and one zxcvbn.                 *)

\* The most candidates an invocation generates in a run of two invocations.
MaxPairCandidates == 2

\* The requests of the two invocations.
PairEvents ==
  {[httpMethod |-> "POST", body |-> Str("{\"password\":\"password\",\"length\":12}")],
   [httpMethod |-> "POST",
    body |-> Str("{\"password\":\"Tr0ub4dor&3-cOrrect\",\"length\":16}")],
   [httpMethod |-> "POST", body |-> Str("null")]}

\* The scores zxcvbn gives in these runs: to a submitted password a low
\* one or the best one, to a generated candidate the best one.
PairScores(input) == IF input \in SubmittedPasswords THEN {1, 4} ELSE {4}

\* The candidates Math.random gives in these runs: one for each length the
\* two requests ask for.
PairCandidates == {generateStrongPassword(length, 1) : length \in {12, 16}}

\* The oracle's answers in these runs, one of each kind: the fetch rejected,
\* a non-success status, a body that lists the string checked, an empty body.
PairReply(checked, answer) ==
  CASE answer = "failed" -> [kind |-> "reject", ok |-> FALSE, text |-> "", listed |-> {}]
    [] answer = "non_success" ->
         [kind |-> "response", ok |-> FALSE, text |-> "", listed |-> {}]
    [] answer = "exposed" ->
         LET x == HashSuffix(sha1Hex(checked))
         IN [kind |-> "response", ok |-> TRUE,
             text |-> Decoy1 \o ":1\r\n" \o x \o ":37\r\n" \o Decoy2 \o ":2",
             listed |-> {Decoy1, x, Decoy2}]
    [] answer = "not_exposed" ->
         [kind |-> "response", ok |-> TRUE, text |-> "", listed |-> {}]

\* What the environment does in these runs.
PairEnv ==
  /\ pc # "idle" => event \in PairEvents
  /\ \A n \in 1 .. Len(zcalls) : zcalls[n].result.score \in PairScores(zcalls[n].input)
  /\ Settled(reply) =>
       reply = PairReply(answers[Len(answers)].checked, answers[Len(answers)].answer)
  /\ Len(generated) <= MaxPairCandidates
  /\ \A n \in 1 .. Len(generated) : generated[n] \in PairCandidates

\* The running invocation: its parameter, its local variables, where it is,
\* and the history of its own requests.
Context ==
  [pc |-> pc, event |-> event, password |-> password, pwLength |-> pwLength,
   z |-> z, hibp |-> hibp, i |-> i, suggested |-> suggested,
   suggestedScore |-> suggestedScore, inflight |-> inflight, reply |-> reply,
   response |-> response, outbound |-> outbound, answers |-> answers,
   generated |-> generated]

\* A variant of Switch in which suggested is a variable of the module, the
\* same for both invocations.
SwitchSharingSuggested ==
  /\ pc # "idle"
  /\ parked' = Context
  /\ pc' = parked.pc
  /\ event' = parked.event
  /\ password' = parked.password
  /\ pwLength' = parked.pwLength
  /\ z' = parked.z
  /\ hibp' = parked.hibp
  /\ i' = parked.i
  /\ suggestedScore' = parked.suggestedScore
  /\ inflight' = parked.inflight
  /\ reply' = parked.reply
  /\ response' = parked.response
  /\ outbound' = parked.outbound
  /\ answers' = parked.answers
  /\ generated' = parked.generated
  /\ UNCHANGED <<suggested, zcalls, console, gen, scan>>

\* The running invocation is at an await or is over: the event loop goes on
\* with the other invocation, whose variables are its own.
Switch ==
  /\ pc # "idle"
  /\ parked' = Context
  /\ pc' = parked.pc
  /\ event' = parked.event
  /\ password' = parked.password
  /\ pwLength' = parked.pwLength
  /\ z' = parked.z
  /\ hibp' = parked.hibp
  /\ i' = parked.i
  /\ suggested' = parked.suggested
  /\ suggestedScore' = parked.suggestedScore
  /\ inflight' = parked.inflight
  /\ reply' = parked.reply
  /\ response' = parked.response
  /\ outbound' = parked.outbound
  /\ answers' = parked.answers
  /\ generated' = parked.generated
  /\ UNCHANGED <<zcalls, console, gen, scan>>

PairNext ==
  \/ (\E ev \in PairEvents : Invoke(ev)) /\ PairEnv'
  \/ OracleReply /\ PairEnv'
  \/ ResumePassword /\ PairEnv'
  \/ ResumeCandidate /\ PairEnv'
  \/ Switch

PairSpec == Init /\ [][PairNext]_vars

----------------------------------------------------------------------------
(* Properties.                                                             *)

Returned200 == pc = "done" /\ response.statusCode = 200

\* The answers the oracle gave about the candidates: all but the first.
CandidateAnswers == [n \in 1 .. Len(answers) - 1 |-> answers[n + 1]]

\* C1: every request sent to the breach oracle, for the submitted password
\* and for each candidate, is the address of the range API followed by the
\* first 5 characters of the digest of the string checked, with the fixed
\* User-Agent header; the string, its digest and the digest's suffix are no
\* part of what the request carries.
OnlyPrefixLeaves ==
  \A n \in 1 .. Len(outbound) :
    LET m == outbound[n]
        d == sha1Hex(m.checked)
        q == SubSeq(m.request.url, Len(HIBPRangeUrl) + 1, Len(m.request.url))
    IN /\ m.request.url = HIBPRangeUrl \o SubSeq(d, 1, 5)
       /\ m.request.headers = [UserAgent |-> UserAgent]
       /\ Len(q) = 5
       /\ ~Contains(q, m.checked, 1)
       /\ ~Contains(q, d, 1)
       /\ ~Contains(q, SubSeq(d, 6, Len(d)), 1)

\* C1's case: the lookups of the submitted password and of two candidates
\* were sent.
OnlyPrefixLeavesWitness ==
  /\ Len(outbound) >= 3
  /\ outbound[1].checked = password
  /\ outbound[3].checked = generated[2]

\* C2: in every 200 response suggested_password is null exactly when
\* strength_score is 4 and pwned is false, and the replacement loop was
\* entered exactly when strength_score < 4 or pwned.
NullIffStrongAndUnexposed ==
  Returned200 =>
    /\ (response.body.suggested_password = JSNull)
         <=> (response.body.strength_score = 4 /\ ~response.body.pwned)
    /\ (generated # <<>>)
         <=> (response.body.strength_score < 4 \/ response.body.pwned)
    /\ generated # <<>> => response.body.suggested_password.t = "string"

\* C2's case: a 200 response without a suggestion.
NullIffStrongAndUnexposedWitness ==
  Returned200 /\ response.body.suggested_password = JSNull

\* C3, as claimed: a non-null suggested_password was looked up and the
\* lookup completed with the answer that it is not exposed.
SuggestionVerifiedUnexposed ==
  (Returned200 /\ response.body.suggested_password # JSNull) =>
    \E n \in 1 .. Len(answers) :
      /\ answers[n].checked = response.body.suggested_password.v
      /\ answers[n].answer = "not_exposed"

\* C3, amended: a non-null suggested_password is the last candidate
\* generated, it was the last string looked up, and the oracle either
\* answered that it is not exposed, or gave no successful answer (non-success
\* or failure, taken as not exposed), or answered that it is exposed when it
\* was the fifth candidate and all five were answered exposed.
SuggestionUnexposedOrFailOpen ==
  (Returned200 /\ response.body.suggested_password # JSNull) =>
    LET a == answers[Len(answers)]
    IN /\ generated # <<>>
       /\ response.body.suggested_password = Str(generated[Len(generated)])
       /\ a.checked = response.body.suggested_password.v
       /\ \/ a.answer \in {"not_exposed", "non_success", "failed"}
          \/ /\ a.answer = "exposed"
             /\ Len(generated) = 5
             /\ \A n \in 1 .. 5 : CandidateAnswers[n].answer = "exposed"

\* C3's case: the second candidate is suggested after the oracle answered
\* that it is not exposed.
SuggestionUnexposedOrFailOpenWitness ==
  /\ Returned200
  /\ Len(generated) = 2
  /\ response.body.suggested_password = Str(generated[2])
  /\ answers[Len(answers)].answer = "not_exposed"

\* C4: whatever the oracle answers, at most 5 candidates are generated and
\* at most 6 requests are sent; the requests after the first are the lookups
\* of the candidates, one for each candidate in the order generated; and the
\* handler has returned once the fifth candidate's lookup is dealt with.
LoopBounded ==
  /\ Len(generated) <= 5
  /\ Len(outbound) <= 6
  /\ generated # <<>> => Len(outbound) = Len(generated) + 1
  /\ \A n \in 1 .. Len(generated) : outbound[n + 1].checked = generated[n]
  /\ pc = "await_candidate" => Len(generated) = i + 1
  /\ (Len(answers) = 6 /\ reply.kind = "none") => pc = "done"

\* C4's case: the loop ran its 5 iterations and the handler returned.
LoopBoundedWitness == pc = "done" /\ Len(generated) = 5 /\ Len(outbound) = 6

\* C5: when the oracle answers exposed for all 5 candidates, the handler
\* returns 200 with the fifth candidate as suggested_password.
ExhaustedReturnsLastCandidate ==
  (/\ pc = "done"
   /\ Len(generated) = 5
   /\ Len(answers) = 6
   /\ \A n \in 1 .. 5 : CandidateAnswers[n].answer = "exposed")
  => /\ response.statusCode = 200
     /\ response.body.suggested_password = Str(generated[5])

\* C5's case: 5 candidates, not all the same, were all answered exposed.
ExhaustedReturnsLastCandidateWitness ==
  /\ pc = "done"
  /\ Len(generated) = 5
  /\ Len(answers) = 6
  /\ \A n \in 1 .. 5 : CandidateAnswers[n].answer = "exposed"
  /\ generated[5] # generated[1]
  /\ generated[5] # generated[4]

\* C6: a non-null suggested_password comes with the score zxcvbn gave to
\* that same string.
SuggestedScoreIsItsScore ==
  (Returned200 /\ response.body.suggested_password # JSNull) =>
    \E n \in 1 .. Len(zcalls) :
      /\ zcalls[n].input = response.body.suggested_password.v
      /\ zcalls[n].result.score = response.body.suggested_password_score

\* C7: when the oracle answered every request of a valid POST with a
\* non-success status, the response is 200 with pwned false and pwned_count
\* 0, and if the loop was entered the first candidate is the suggestion.
AllNonSuccessFailsOpen ==
  (/\ pc = "done"
   /\ answers # <<>>
   /\ \A n \in 1 .. Len(answers) : answers[n].answer = "non_success")
  => /\ response.statusCode = 200
     /\ response.body.pwned = FALSE
     /\ response.body.pwned_count = 0
     /\ generated # <<>> =>
          /\ Len(generated) = 1
          /\ response.body.suggested_password = Str(generated[1])

\* C7's case: the lookups of the password and of the first candidate were
\* both answered with a non-success status.
AllNonSuccessFailsOpenWitness ==
  /\ pc = "done"
  /\ Len(answers) = 2
  /\ \A n \in 1 .. Len(answers) : answers[n].answer = "non_success"

\* C8: when a request to the oracle fails (the lookup of the submitted
\* password or of a candidate), the handler still returns 200.
FailedLookupNeverFails ==
  (pc = "done" /\ \E n \in 1 .. Len(answers) : answers[n].answer = "failed")
    => response.statusCode = 200

\* C9: every fetch has a bounded timeout, so that the invocation returns also
\* when the oracle never answers: whenever the handler awaits a fetch the
\* oracle has not settled, the handler has a step of its own to take.
AwaitHasTimeout ==
  (pc \in {"await_password", "await_candidate"} /\ reply.kind = "none")
    => ENABLED (ResumePassword \/ ResumeCandidate)

\* The password field of a parsed request body.
PasswordField(v) == IF v.t = "object" THEN v.password ELSE Undefined

\* The request is a POST whose body parses to a value other than null in
\* which the password field is missing, empty or not a string.
LacksPassword(ev) ==
  /\ ev.httpMethod = "POST"
  /\ LET b == JSONparse(IF ev.body.t = "string" /\ ev.body.v # "" THEN ev.body.v ELSE "{}")
     IN /\ b.ok
        /\ b.value # JSNull
        /\ \/ PasswordField(b.value).t # "string"
           \/ PasswordField(b.value) = Str("")

\* C10: a non-POST invocation is answered 405 and a POST without a usable
\* password 400; a request answered 405 or 400 sent no request to the
\* oracle, evaluated no strength and generated no candidate.
RejectedWithoutWork ==
  pc = "done" =>
    /\ event.httpMethod # "POST" => response = MethodNotAllowed
    /\ LacksPassword(event) => response = PasswordRequired
    /\ response.statusCode \in {400, 405} =>
         /\ outbound = <<>>
         /\ inflight = {}
         /\ answers = <<>>
         /\ zcalls = <<>>
         /\ generated = <<>>

\* C10's case: a POST whose password is not a string was answered 400.
RejectedWithoutWorkWitness ==
  /\ pc = "done"
  /\ event = [httpMethod |-> "POST", body |-> Str("{\"password\":12345}")]
  /\ response.statusCode = 400

\* The value event.body parses to, or the failure of JSON.parse.
ParsedBody(ev) ==
  JSONparse(IF ev.body.t = "string" /\ ev.body.v # "" THEN ev.body.v ELSE "{}")

\* The request is a POST with bad or missing input: its body is no JSON
\* text, or parses to a value without a non-empty string as password.
BadInput(ev) ==
  /\ ev.httpMethod = "POST"
  /\ LET b == ParsedBody(ev)
     IN \/ ~b.ok
        \/ PasswordField(b.value).t # "string"
        \/ PasswordField(b.value) = Str("")

\* C11: every POST with bad or missing input, a body that is no JSON text or
\* that parses to null included, is answered with a 4xx status, never 500.
BadInputIsValidationError ==
  (pc = "done" /\ BadInput(event)) => response.statusCode \in 400 .. 499

\* The length field of a parsed request body.
LengthField(v) == IF v.t = "object" THEN v.length ELSE Undefined

\* The length the request asks for: its length when that is one of the
\* numbers 12, 16, 20, and 16 for every other value.
RequestedLength(ev) ==
  LET l == LengthField(ParsedBody(ev).value)
  IN IF l \in {Num(12), Num(16), Num(20)} THEN l.v ELSE 16

\* C12: once the request is validated, the length used for generation is the
\* request's length when that is 12, 16 or 20 and 16 otherwise; every
\* candidate generated, in whichever iteration, and every non-null
\* suggested_password of a response has exactly that length.
SuggestionHasRequestedLength ==
  outbound # <<>> =>
    /\ pwLength = RequestedLength(event)
    /\ \A n \in 1 .. Len(generated) : Len(generated[n]) = RequestedLength(event)
    /\ (Returned200 /\ response.body.suggested_password # JSNull) =>
         Len(response.body.suggested_password.v) = RequestedLength(event)

\* C12's case: a request for length 20 is answered with the third candidate
\* generated, which has 20 characters.
SuggestionHasRequestedLengthWitness ==
  /\ Returned200
  /\ LengthField(ParsedBody(event).value) = Num(20)
  /\ Len(generated) = 3
  /\ response.body.suggested_password = Str(generated[3])
  /\ Len(generated[3]) = 20

\* A request whose length is not one of 12, 16, 20 got a suggestion of
\* length 16.
DefaultLengthSuggested ==
  /\ Returned200
  /\ LengthField(ParsedBody(event).value) \in {Num(13), Str("12")}
  /\ response.body.suggested_password # JSNull
  /\ Len(response.body.suggested_password.v) = 16

\* The number of positions of the sequence a that hold c.
Count(a, c) == Cardinality({n \in 1 .. Len(a) : a[n] = c})

\* The sequence of characters a holds the characters of the string s, each
\* as often as s does.
IsPermutation(a, s) ==
  /\ Len(a) = Len(s)
  /\ \A n \in 1 .. Len(s) : Count(a, SubSeq(s, n, n)) = Count(SplitChars(s), SubSeq(s, n, n))

\* The string s has a character of the string class.
HasOneOf(s, class) == \E n \in 1 .. Len(s) : IndexOf(class, SubSeq(s, n, n), 1) # 0

\* C13: for every length n >= 4 and every outcome of the draws,
\* generateStrongPassword(n) returns a string of length n with an uppercase
\* letter, a lowercase letter, a digit and a symbol; at every step of the
\* shuffle arr is a permutation of the seeded and filled pw.
GeneratedIsStrong ==
  /\ gen.pc \in {"shuffle", "returned"} => IsPermutation(gen.arr, gen.pw)
  /\ (gen.pc = "returned" /\ gen.length >= 4) =>
       /\ Len(GenResult) = gen.length
       /\ HasOneOf(GenResult, upper)
       /\ HasOneOf(GenResult, lower)
       /\ HasOneOf(GenResult, digits)
       /\ HasOneOf(GenResult, symbols)

\* C13's case: a call with a length above 4 returned, and the shuffle moved
\* each of the four seeded characters away from its place.
GeneratedIsStrongWitness ==
  /\ gen.pc = "returned"
  /\ gen.length > 4
  /\ \A n \in 1 .. 4 : gen.arr[n] # SubSeq(gen.pw, n, n)

\* C20: generateStrongPassword(length) never returns a string when length is
\* smaller than 4, the number of mandatory classes.
ShortLengthIsRefused == gen.length < 4 => gen.pc # "returned"

\* C14: a 500 response is generic: neither its details nor what is logged
\* with it carries a password the request submitted, so that two requests
\* that differ only in the password and fail the same way get the same body.
InternalErrorIsGeneric ==
  (pc = "done" /\ response.statusCode = 500) =>
    \A s \in SubmittedPasswords :
      (event.body.t = "string" /\ Contains(event.body.v, s, 1)) =>
        /\ ~Contains(response.body.details, s, 1)
        /\ \A n \in 1 .. Len(console) : ~Contains(console[n], s, 1)

\* C16: every 200 response carries Cache-Control: no-store, and no other
\* response has a suggested_password in its body.
NoStoreOnEvery200 ==
  pc = "done" =>
    /\ response.statusCode = 200 => <<"Cache-Control", "no-store">> \in response.headers
    /\ "suggested_password" \in DOMAIN response.body => response.statusCode = 200

\* C16's case: a 200 response with a generated password in its body.
NoStoreOnEvery200Witness ==
  /\ Returned200
  /\ generated # <<>>
  /\ response.body.suggested_password = Str(generated[Len(generated)])
  /\ <<"Cache-Control", "no-store">> \in response.headers

\* C18: at most one lookup is in flight; a candidate is generated only after
\* the lookup of each candidate before it was answered, and answered
\* exposed; once the lookup of a candidate is answered otherwise and the
\* handler has resumed, the invocation is over: nothing is in flight and no
\* step that sends a request or generates a candidate is left.
SequentialLoop ==
  /\ Cardinality(inflight) <= 1
  /\ generated # <<>> => Len(answers) \in {Len(generated), Len(generated) + 1}
  /\ \A n \in 1 .. Len(generated) - 1 :
       /\ CandidateAnswers[n].checked = generated[n]
       /\ CandidateAnswers[n].answer = "exposed"
  /\ (/\ generated # <<>>
      /\ Len(answers) = Len(generated) + 1
      /\ answers[Len(answers)].answer # "exposed"
      /\ ~Settled(reply)) => pc = "done"
  /\ pc = "done" =>
       /\ inflight = {}
       /\ Len(outbound) = Len(answers)
       /\ ~ENABLED (OracleReply \/ ResumePassword \/ ResumeCandidate)

\* C18's case: the third candidate was accepted after the first two were
\* answered exposed, and the invocation is over.
SequentialLoopWitness ==
  /\ pc = "done"
  /\ Len(generated) = 3
  /\ Len(answers) = 4
  /\ answers[4].answer = "not_exposed"

SearchFindsWholeSuffix ==
  scan.pc = "searched" =>
    LET hits == {n \in 1 .. Len(scan.records) : scan.records[n].same}
        first == CHOOSE n \in hits : \A m \in hits : n <= m
    IN IF hits = {} THEN scan.result = [pwned |-> FALSE, count |-> 0]
       ELSE scan.result = [pwned |-> TRUE, count |-> scan.records[first].count]

\* C17's case: a body whose first record has a suffix field one character
\* short, whose second has the suffix in lower case and whose third has it
\* as well: the count is the second record's.
SearchFindsWholeSuffixWitness ==
  /\ scan.pc = "searched"
  /\ Len(scan.records) = 3
  /\ ~scan.records[1].same
  /\ scan.records[1].count = 9
  /\ scan.records[2].same
  /\ scan.records[2].count = 4
  /\ scan.records[3].same
  /\ scan.records[3].count = 37
  /\ scan.result = [pwned |-> TRUE, count |-> 4]

\* The result zxcvbn gave for input; the result of no call when it was not
\* called with it.
ZResult(input) ==
  LET calls == {n \in 1 .. Len(zcalls) : zcalls[n].input = input}
  IN IF calls = {} THEN NoZ ELSE zcalls[CHOOSE n \in calls : TRUE].result

\* What `await checkHIBP(pw)` comes to when the oracle answers it with a.
AnswerTo(pw, a) ==
  CHOOSE r \in {checkHIBP(p, rp) : p \in {pw}, rp \in {PairReply(a.checked, a.answer)}} :
    TRUE

RECURSIVE ReplacementLoop(_, _, _, _)
\* The loop of lines 140 to 147 from iteration n on, run without a break for
\* the invocation c: its candidates are c.generated and its lookups are
\* answered as c.answers tells.
ReplacementLoop(n, c, hibpV, zV) ==
  CHOOSE resp \in
    {IF Accepts(chk) THEN Response200(hibpV, zV, Str(cand), ZResult(cand).score)
     ELSE IF LoopContinues(n + 1) THEN ReplacementLoop(n + 1, c, hibpV, zV)
     ELSE Response200(hibpV, zV, Str(cand), 0) :
       cand \in {c.generated[n + 1]},
       chk \in {CatchLookup(AnswerTo(c.generated[n + 1], c.answers[n + 2]))}} : TRUE

\* Lines 126 to 165 run without a break for the invocation c, whose request
\* passed the validation with e.
AfterChecks(c, e) ==
  CHOOSE resp \in
    {IF r.threw THEN InternalError(r.message)
     ELSE IF NeedsSuggestion(zV.score, r.value.pwned)
     THEN ReplacementLoop(0, c, r.value, zV)
     ELSE Response200(r.value, zV, JSNull, 0) :
       r \in {AnswerTo(e.password, c.answers[1])},
       zV \in {ZResult(e.password)}} : TRUE

\* What the handler returns for the request of the invocation c when it
\* runs alone, with the oracle's answers and the candidates c had.
RunAlone(c) ==
  CHOOSE resp \in
    {IF e.kind = "return" THEN e.response ELSE AfterChecks(c, e) :
       e \in {Entry(c.event)}} : TRUE

\* C15: when two invocations run interleaved at their awaits, the response
\* an invocation returns, whatever the other one did in between, is the one
\* the handler returns when it runs alone with the same request, the same
\* answers of the oracle and the same candidates; and the requests each one
\* sent are for its own password and its own candidates.
InvocationsIndependent ==
  /\ pc = "done" => response = RunAlone(Context)
  /\ \A c \in {Context, parked} :
       /\ c.outbound # <<>> => c.outbound[1].checked = c.password
       /\ \A n \in 1 .. Len(c.generated) :
            /\ Len(c.outbound) > n
            /\ c.outbound[n + 1].checked = c.generated[n]
            /\ Len(c.generated[n]) = c.pwLength

\* C15's case: two invocations with different passwords and lengths were
\* both invoked before either had a candidate scored, each got a candidate
\* of its own as suggestion, and both are over.
InvocationsIndependentWitness ==
  /\ pc = "done"
  /\ parked.pc = "done"
  /\ password # parked.password
  /\ response.statusCode = 200
  /\ parked.response.statusCode = 200
  /\ generated # <<>>
  /\ parked.generated # <<>>
  /\ response.body.suggested_password = Str(generated[Len(generated)])
  /\ parked.response.body.suggested_password = Str(parked.generated[Len(parked.generated)])
  /\ Len(response.body.suggested_password.v) # Len(parked.response.body.suggested_password.v)
  /\ Len(zcalls) = 4
  /\ {zcalls[1].input, zcalls[2].input} = {password, parked.password}

====
